---- MODULE Spec2Model ----
(***************************************************************************)
(* Model of neurostatslib/basis.py: the basis algebra (Basis, addBasis,    *)
(* mulBasis), knot generation (SplineBasis._generate_knots) and B-spline   *)
(* evaluation (BSplineBasis.evaluate), with gen_model_matrix as the entry  *)
(* point.                                                                  *)
(*                                                                         *)
(* Numbers.  Samples are integers.  A knot vector is a record              *)
(* [scale, k]: the knot values are k[i] / scale, so np.linspace's evenly   *)
(* spaced points are exact.  Matrix entries are exact fractions <<num,     *)
(* den>> in lowest terms with den > 0; Python's None inside an object      *)
(* array is the entry NoneEntry.  Floating-point rounding is modelled     *)
(* only where the code writes the caller's sample array (fl, below).       *)
(* Sequences are 1-based: Python's a[i] is a[i + 1] here.                  *)
(***************************************************************************)
EXTENDS Integers, Sequences, FiniteSets, TLC

VARIABLES heap, last, knot_locs, calls

vars == <<heap, last, knot_locs, calls>>

-----------------------------------------------------------------------------
(* Bounds of the model. *)

\* objects (leaves and composites) a run constructs
MaxObjects == 3
\* largest n_basis_funcs passed to a leaf constructor
MaxBasisFuncs == 2
\* longest sample stream (N)
MaxSamples == 2
\* largest order passed to a leaf constructor
MaxOrder == 3
\* the ceiling, in bytes, a caller configures in place of the default
SmallLimitBytes == 32

\* significant bits of the floating-point format of the sample buffers (the
\* code's float64 has 53)
MantissaBits == 3

(* Program constants. *)

\* default of the constructors' order parameter
DefaultOrder == 2
\* np.dtype(np.float64).itemsize
ItemSize == 8
\* the factor 10**9 between GB_limit and bytes
BytesPerGB == 1000000000
\* default of Basis.__init__'s GB_limit parameter, in GB
DefaultGBLimit == 16

-----------------------------------------------------------------------------
(* Exact fractions. *)

RECURSIVE GCD(_, _)
GCD(a, b) == IF b = 0 THEN a ELSE GCD(b, a % b)

Abs(a) == IF a < 0 THEN -a ELSE a

\* n / d in lowest terms, d # 0
Frac(n, d) ==
  LET g == GCD(Abs(n), Abs(d))
      s == IF d < 0 THEN -1 ELSE 1
  IN <<(s * n) \div g, (s * d) \div g>>

FZero == <<0, 1>>
FOne == <<1, 1>>
NoneEntry == <<0, 0>>

FAdd(p, q) == Frac(p[1] * q[2] + q[1] * p[2], p[2] * q[2])
FMul(p, q) == Frac(p[1] * q[1], p[2] * q[2])

SeqMin(s) == CHOOSE m \in {s[i] : i \in DOMAIN s} : \A i \in DOMAIN s : m <= s[i]
SeqMax(s) == CHOOSE m \in {s[i] : i \in DOMAIN s} : \A i \in DOMAIN s : m >= s[i]

\* n copies of v
Rep(n, v) == [i \in 1..n |-> v]

-----------------------------------------------------------------------------
(* SplineBasis._generate_knots *)

\* np.linspace(mn, mx, num), times scale = num - 1
linspace(mn, mx, num) == [i \in 1..num |-> (num - 1) * mn + (i - 1) * (mx - mn)]

\* variant: a cyclic basis given order more interior knots, not order - 1
num_interior_knots_order_more(n_basis_funcs, order, is_cyclic) ==
  n_basis_funcs - order + (IF is_cyclic THEN order ELSE 0)

num_interior_knots(n_basis_funcs, order, is_cyclic) ==
  n_basis_funcs - order + (IF is_cyclic THEN order - 1 ELSE 0)

\* the knots of sample_pts at percentiles 0.0 and 1.0 (the only percentiles
\* evaluate passes, so mn and mx are the smallest and largest sample and the
\* three percentile assertions hold); exc = "ValueError" when order is too large
generate_knots(n_basis_funcs, order, sample_pts, is_cyclic) ==
  LET ni == num_interior_knots(n_basis_funcs, order, is_cyclic)
      mn == SeqMin(sample_pts)
      mx == SeqMax(sample_pts)
      sc == ni + 1
  IN IF ni < 0
       THEN [exc |-> "ValueError", scale |-> 1, k |-> <<>>]
       ELSE [exc |-> "",
             scale |-> sc,
             k |-> Rep(order - 1, sc * mn) \o linspace(mn, mx, ni + 2)
                     \o Rep(order - 1, sc * mx)]

-----------------------------------------------------------------------------
(* scipy.interpolate.splev on the coefficient vector that is 1 at one basis *)
(* index: the B-spline basis function of that index (FITPACK splev/fpbspl). *)

\* FITPACK's knot interval of x: t[l] <= x < t[l+1], kept within order..n-order
KnotInterval(x, t, order) ==
  order + Cardinality({j \in (order + 1)..(Len(t) - order) : t[j] <= x})

\* a weight of the recurrence; 0 on a knot of multiplicity (fpbspl's rule)
Weight(num, den) == IF den = 0 THEN FZero ELSE Frac(num, den)

RECURSIVE CoxDeBoor(_, _, _, _, _)
CoxDeBoor(i, k, x, t, l) ==
  IF k = 1
    THEN (IF i = l THEN FOne ELSE FZero)
    ELSE FAdd(FMul(Weight(x - t[i], t[i + k - 1] - t[i]),
                   CoxDeBoor(i, k - 1, x, t, l)),
              FMul(Weight(t[i + k] - x, t[i + k] - t[i + 1]),
                   CoxDeBoor(i + 1, k - 1, x, t, l)))

\* splev(x, (knots, id_basis[i], order - 1)), i counted from 0 as in the code
splev(x, t, i, order) == CoxDeBoor(i + 1, order, x, t, KnotInterval(x, t, order))

-----------------------------------------------------------------------------
(* BSplineBasis.evaluate *)

RECURSIVE Insert(_, _)
Insert(v, s) ==
  IF s = <<>> THEN <<v>>
  ELSE IF v <= Head(s) THEN <<v>> \o s
  ELSE <<Head(s)>> \o Insert(v, Tail(s))

RECURSIVE sort(_)
sort(s) == IF s = <<>> THEN <<>> ELSE Insert(Head(s), sort(Tail(s)))

\* need_outer of a sorted knot vector kn (scaled by sc)
need_outer(sample_pts, kn, sc, order) ==
  \/ \E n \in DOMAIN sample_pts : sc * sample_pts[n] < kn[order]
  \/ \E n \in DOMAIN sample_pts : sc * sample_pts[n] > kn[Len(kn) - order + 1]

in_sample(x, kn, sc) == sc * x >= kn[1] /\ sc * x <= kn[Len(kn)]

\* The part of evaluate after the knots were read from the instance: the
\* support check, the extension of the knots, and the loop over the basis
\* elements.  empty_ok: whether this build's splev accepts an empty array of
\* points (it is asked for one only when no sample is within the knots).
evaluate_body(sample_pts, kv, order, outer_ok, empty_ok) ==
  LET kn0 == sort(kv.k)
      sc == kv.scale
      outer == need_outer(sample_pts, kn0, sc, order)
      reps == IF outer THEN order - 1 ELSE 0
      kn == IF outer
              THEN Rep(reps, kn0[1]) \o kn0 \o Rep(reps, kn0[Len(kn0)])
              ELSE kn0
      n_basis == Len(kn) - order
      inside == {n \in DOMAIN sample_pts : in_sample(sample_pts[n], kn0, sc)}
  IN IF outer /\ ~outer_ok
       THEN [exc |-> "AssertionError", rows |-> <<>>]
     ELSE IF inside = {} /\ ~empty_ok /\ n_basis - 2 * reps > 0
       THEN [exc |-> "ValueError", rows |-> <<>>]
     ELSE [exc |-> "",
           rows |-> [r \in 1..(n_basis - 2 * reps) |->
                      [n \in DOMAIN sample_pts |->
                        IF n \in inside
                          THEN splev(sc * sample_pts[n], kn, r - 1 + reps, order)
                          ELSE FZero]]]

\* evaluate run alone on an instance: the knots it reads are the knots it
\* generated, and they are deleted before it returns
evaluate(n_basis_funcs, order, sample_pts, outer_ok) ==
  LET kv == generate_knots(n_basis_funcs, order, sample_pts, FALSE)
  IN IF kv.exc # ""
       THEN [exc |-> kv.exc, rows |-> <<>>]
       ELSE evaluate_body(sample_pts, kv, order, outer_ok, TRUE)


-----------------------------------------------------------------------------
(* Values a matrix-generation routine returns, and the two combinators. *)

Matrix(rows) == [tag |-> "matrix", rows |-> rows]
\* Python's None (what Basis.convolve returns)
NoneValue == [tag |-> "None", rows |-> <<>>]

\* np.atleast_2d: None becomes a 1 x 1 object array
atleast_2d(v) == IF v.tag = "None" THEN <<<<NoneEntry>>>> ELSE v.rows

\* variant: the second array stacked above the first
vstack_reversed(a, b) ==
  LET ra == atleast_2d(a)
      rb == atleast_2d(b)
  IN IF Len(ra[1]) # Len(rb[1])
       THEN [exc |-> "ValueError", val |-> NoneValue]
       ELSE [exc |-> "", val |-> Matrix(rb \o ra)]

\* np.vstack((a, b)): the rows of b below the rows of a; the column counts
\* must agree
vstack(a, b) ==
  LET ra == atleast_2d(a)
      rb == atleast_2d(b)
  IN IF Len(ra[1]) # Len(rb[1])
       THEN [exc |-> "ValueError", val |-> NoneValue]
       ELSE [exc |-> "", val |-> Matrix(ra \o rb)]

HasNone(v) ==
  v.tag = "None" \/ \E r \in DOMAIN v.rows : \E n \in DOMAIN v.rows[r] :
                      v.rows[r][n] = NoneEntry

\* utils.rowWiseKron(a, b, transpose=True): row i*R + j is the elementwise
\* product of row i of a and row j of b (i, j from 0).  Defined on two numeric
\* matrices over the same samples; anything else raises.
rowWiseKron(a, b) ==
  IF HasNone(a) \/ HasNone(b)
    THEN [exc |-> "TypeError", val |-> NoneValue]
  ELSE IF Len(a.rows[1]) # Len(b.rows[1])
    THEN [exc |-> "ValueError", val |-> NoneValue]
  ELSE LET R == Len(b.rows)
       IN [exc |-> "",
           val |-> Matrix([r \in 1..(Len(a.rows) * R) |->
                     [n \in DOMAIN a.rows[1] |->
                       FMul(a.rows[((r - 1) \div R) + 1][n],
                            b.rows[((r - 1) % R) + 1][n])]])]

-----------------------------------------------------------------------------
(* The objects.  heap[b] is the basis object with identity b.  GB_limit is *)
(* <<g, r>>: g + r / 10**9 GB, that is g * 10**9 + r bytes (r < 10**9).    *)

IsLeaf(o) == o.cls \in {"BSplineBasis", "Cyclic_BSplineBasis"}

\* Basis.__init__ / SplineBasis.__init__ / BSplineBasis.__init__: the object
\* a successful leaf construction leaves
SplineBasis(cls, n_basis_funcs, order, eval_type) ==
  [cls |-> cls, n_basis_funcs |-> n_basis_funcs,
   GB_limit |-> <<DefaultGBLimit, 0>>, n_input_samples |-> 1,
   order |-> order, eval_type |-> eval_type, basis1 |-> 0, basis2 |-> 0]

\* what SplineBasis.__init__ raises, "" when it returns
SplineBasisInitError(order, eval_type) ==
  IF order < 1 THEN "ValueError"
  ELSE IF eval_type \notin {"evaluate", "convolve"} THEN "ValueError"
  ELSE ""

\* variant: a sum that takes its ceiling from its right operand
addBasis_right_limit(h, b1, b2) ==
  [cls |-> "addBasis",
   n_basis_funcs |-> h[b1].n_basis_funcs + h[b2].n_basis_funcs,
   GB_limit |-> h[b2].GB_limit,
   n_input_samples |-> h[b1].n_input_samples + h[b2].n_input_samples,
   order |-> 0, eval_type |-> "", basis1 |-> b1, basis2 |-> b2]

\* variant: a sum that takes its input count from its left operand alone
addBasis_left_inputs(h, b1, b2) ==
  [cls |-> "addBasis",
   n_basis_funcs |-> h[b1].n_basis_funcs + h[b2].n_basis_funcs,
   GB_limit |-> h[b1].GB_limit,
   n_input_samples |-> h[b1].n_input_samples,
   order |-> 0, eval_type |-> "", basis1 |-> b1, basis2 |-> b2]

\* addBasis.__init__
addBasis(h, b1, b2) ==
  [cls |-> "addBasis",
   n_basis_funcs |-> h[b1].n_basis_funcs + h[b2].n_basis_funcs,
   GB_limit |-> h[b1].GB_limit,
   n_input_samples |-> h[b1].n_input_samples + h[b2].n_input_samples,
   order |-> 0, eval_type |-> "", basis1 |-> b1, basis2 |-> b2]

\* mulBasis.__init__
mulBasis(h, b1, b2) ==
  [cls |-> "mulBasis",
   n_basis_funcs |-> h[b1].n_basis_funcs * h[b2].n_basis_funcs,
   GB_limit |-> h[b1].GB_limit,
   n_input_samples |-> h[b1].n_input_samples + h[b2].n_input_samples,
   order |-> 0, eval_type |-> "", basis1 |-> b1, basis2 |-> b2]

-----------------------------------------------------------------------------
(* gen_model_matrix *)

InputCountError == "ValueError: input number mismatch"
ShapeError == "ValueError: sample size mismatch"
ResourceLimitError == "MemoryError"

Min(a, b) == IF a < b THEN a ELSE b

\* Python's x_list[:n] and x_list[n:]
SliceTo(x_list, n) == SubSeq(x_list, 1, Min(n, Len(x_list)))
SliceFrom(x_list, n) == SubSeq(x_list, Min(n, Len(x_list)) + 1, Len(x_list))

\* the _gen_model_matrix a BSplineBasis is given at construction:
\* self.evaluate(x_list[0]) or self.convolve(x_list[0])
leaf_gen_model_matrix(o, b, x_list) ==
  IF x_list = <<>>
    THEN [exc |-> "IndexError", val |-> NoneValue, log |-> <<>>]
  ELSE IF o.eval_type = "evaluate"
    THEN LET r == evaluate(o.n_basis_funcs, o.order, x_list[1], FALSE)
         IN [exc |-> r.exc,
             val |-> IF r.exc = "" THEN Matrix(r.rows) ELSE NoneValue,
             log |-> <<[leaf |-> b, stream |-> x_list[1]]>>]
    ELSE [exc |-> "", val |-> NoneValue,
          log |-> <<[leaf |-> b, stream |-> x_list[1]]>>]

\* variant: the right child's streams cut at the right child's own count
right_streams_own_count(h, o, x_list) ==
  SliceFrom(x_list, h[o.basis2].n_input_samples)

\* the streams handed to the two children of a composite
left_streams(h, o, x_list) == SliceTo(x_list, h[o.basis1].n_input_samples)
right_streams(h, o, x_list) == SliceFrom(x_list, h[o.basis1].n_input_samples)

\* variant: a product that combines its children right operand first
combine_swapped(o, l, r) ==
  IF o.cls = "addBasis" THEN vstack(l, r) ELSE rowWiseKron(r, l)

\* how a composite combines its children's results
combine(o, l, r) == IF o.cls = "addBasis" THEN vstack(l, r) ELSE rowWiseKron(l, r)

\* _gen_model_matrix of object b on x_list: the left child first, then the
\* right child, then the combination; an exception ends it where it is raised.
\* log lists the leaf evaluations started, in order, with the stream each
\* was given.
RECURSIVE gen_matrix(_, _, _)
gen_matrix(h, b, x_list) ==
  LET o == h[b]
  IN IF IsLeaf(o)
       THEN leaf_gen_model_matrix(o, b, x_list)
       ELSE LET l == gen_matrix(h, o.basis1, left_streams(h, o, x_list))
            IN IF l.exc # "" THEN l
               ELSE LET r == gen_matrix(h, o.basis2, right_streams(h, o, x_list))
                    IN IF r.exc # ""
                         THEN [exc |-> r.exc, val |-> NoneValue,
                               log |-> l.log \o r.log]
                         ELSE LET c == combine(o, l.val, r.val)
                              IN [exc |-> c.exc, val |-> c.val,
                                  log |-> l.log \o r.log]

\* Basis._check_samples_consistency
check_samples_consistency(x) ==
  IF \E i \in DOMAIN x : Len(x[i]) # Len(x[1]) THEN ShapeError ELSE ""

\* variant: size_in_bytes >= GB_limit * 10**9, a size equal to the ceiling fails
exceeds_limit_inclusive(size_in_bytes, GB_limit) ==
  \/ size_in_bytes \div BytesPerGB > GB_limit[1]
  \/ /\ size_in_bytes \div BytesPerGB = GB_limit[1]
     /\ size_in_bytes % BytesPerGB >= GB_limit[2]

\* size_in_bytes > GB_limit * 10**9, GB_limit = <<g, r>>
exceeds_limit(size_in_bytes, GB_limit) ==
  \/ size_in_bytes \div BytesPerGB > GB_limit[1]
  \/ /\ size_in_bytes \div BytesPerGB = GB_limit[1]
     /\ size_in_bytes % BytesPerGB > GB_limit[2]

\* Basis._check_full_model_matrix_size
check_full_model_matrix_size(o, n_samples) ==
  IF exceeds_limit(ItemSize * n_samples * o.n_basis_funcs, o.GB_limit)
    THEN ResourceLimitError ELSE ""

\* Basis._check_input_number
check_input_number(o, x) ==
  IF Len(x) # o.n_input_samples THEN InputCountError ELSE ""

\* Basis.gen_model_matrix: the three checks in the order of the code, x[0] of
\* an empty argument list raising IndexError, then the dispatch
gen_model_matrix(h, b, x) ==
  LET o == h[b]
      fail(e) == [exc |-> e, val |-> NoneValue, log |-> <<>>]
  IN IF check_samples_consistency(x) # ""
       THEN fail(check_samples_consistency(x))
     ELSE IF x = <<>>
       THEN fail("IndexError")
     ELSE IF check_full_model_matrix_size(o, Len(x[1])) # ""
       THEN fail(check_full_model_matrix_size(o, Len(x[1])))
     ELSE IF check_input_number(o, x) # ""
       THEN fail(check_input_number(o, x))
     ELSE gen_matrix(h, b, x)

-----------------------------------------------------------------------------
(* Inputs of a call: k sample streams.  The stream at position i starts at *)
(* the value i and is ascending, descending or rotated by position, so the *)
(* streams of a call differ in their values and in the order of their      *)
(* samples.  At most one stream (position j) has another length than the   *)
(* others.                                                                 *)

stream(i, len) ==
  [c \in 1..len |->
     CASE i % 3 = 1 -> i + c - 1
       [] i % 3 = 2 -> i + len - c
       [] OTHER -> i + (c % len)]

OtherLength(N) == (N % MaxSamples) + 1

call_input(k, N, j) ==
  [i \in 1..k |-> stream(i, IF i = j THEN OtherLength(N) ELSE N)]

\* the argument lists tried on a basis of n input streams: none, one too few,
\* the right number, one too many
InputCounts(n) == {0, n, n + 1} \cup (IF n > 1 THEN {n - 1} ELSE {})

Inputs(n) ==
  {call_input(k, N, j) : k \in InputCounts(n), N \in 1..MaxSamples, j \in {0, 1, n}}

-----------------------------------------------------------------------------
(* State.  heap: the basis objects constructed so far.  last: the most     *)
(* recent operation and how it ended.  knot_locs and calls belong to the   *)
(* interleaved evaluate calls below.                                       *)

NoOp == [op |-> "none", basis |-> 0, x |-> <<>>, exc |-> "",
         val |-> NoneValue, log |-> <<>>]

Constructed(op, b, e) == [NoOp EXCEPT !.op = op, !.basis = b, !.exc = e]

\* BSplineBasis(n_basis_funcs, order=order, eval_type=eval_type)
NewBSplineBasis(n_basis_funcs, order, eval_type) ==
  /\ Len(heap) < MaxObjects
  /\ IF SplineBasisInitError(order, eval_type) = ""
       THEN /\ heap' = Append(heap, SplineBasis("BSplineBasis", n_basis_funcs,
                                                order, eval_type))
            /\ last' = Constructed("BSplineBasis", Len(heap) + 1, "")
       ELSE /\ heap' = heap
            /\ last' = Constructed("BSplineBasis", 0,
                                   SplineBasisInitError(order, eval_type))
  /\ UNCHANGED <<knot_locs, calls>>

\* Basis.__add__: b1 + b2
Add(b1, b2) ==
  /\ Len(heap) < MaxObjects
  /\ heap' = Append(heap, addBasis(heap, b1, b2))
  /\ last' = Constructed("addBasis", Len(heap) + 1, "")
  /\ UNCHANGED <<knot_locs, calls>>

\* Basis.__mul__: b1 * b2
Mul(b1, b2) ==
  /\ Len(heap) < MaxObjects
  /\ heap' = Append(heap, mulBasis(heap, b1, b2))
  /\ last' = Constructed("mulBasis", Len(heap) + 1, "")
  /\ UNCHANGED <<knot_locs, calls>>

\* b.gen_model_matrix(*x), a whole call.  A call changes no object, so a call
\* that follows another call reaches only states the same call reaches when
\* made first: calls are taken from the states a construction leaves.
GenModelMatrix(b, x) ==
  /\ b \in DOMAIN heap
  /\ last.op # "gen_model_matrix"
  /\ LET r == gen_model_matrix(heap, b, x)
     IN last' = [op |-> "gen_model_matrix", basis |-> b, x |-> x,
                 exc |-> r.exc, val |-> r.val, log |-> r.log]
  /\ UNCHANGED <<heap, knot_locs, calls>>

\* b.GB_limit = limit, on the leaf just constructed: the ceiling is a public
\* attribute, and the leaf constructors take no ceiling and leave the
\* default, so this is how a leaf is configured with another one
SetGBLimit(b, limit) ==
  /\ b \in DOMAIN heap
  /\ last.op = "BSplineBasis" /\ last.basis = b
  /\ heap[b].GB_limit # limit
  /\ heap' = [heap EXCEPT ![b].GB_limit = limit]
  /\ last' = Constructed("GB_limit", b, "")
  /\ UNCHANGED <<knot_locs, calls>>

\* the ceilings configured: the default, and SmallLimitBytes bytes
Limits == {<<DefaultGBLimit, 0>>, <<0, SmallLimitBytes>>}

\* eval_type arguments tried: the two the constructor accepts and one it rejects
EvalTypes == {"evaluate", "convolve", "spline"}

Init ==
  /\ heap = <<>>
  /\ last = NoOp
  /\ knot_locs = <<>>
  /\ calls = <<>>

\* Bases with the default order are built and composed, and the basis built
\* last is called.
Next ==
  \/ \E n \in 1..MaxBasisFuncs : NewBSplineBasis(n, DefaultOrder, "evaluate")
  \/ \E b1, b2 \in DOMAIN heap : Add(b1, b2)
  \/ \E b1, b2 \in DOMAIN heap : Mul(b1, b2)
  \/ /\ heap # <<>>
     /\ \E x \in Inputs(heap[Len(heap)].n_input_samples) :
          GenModelMatrix(Len(heap), x)

Spec == Init /\ [][Next]_vars

\* One leaf with any constructor arguments, alone or composed with itself,
\* and calls of the basis built last.
NextLeaf ==
  \/ /\ heap = <<>>
     /\ \E n \in (-1)..MaxBasisFuncs, k \in 0..MaxOrder, e \in EvalTypes :
          NewBSplineBasis(n, k, e)
  \/ Len(heap) = 1 /\ Add(1, 1)
  \/ Len(heap) = 1 /\ Mul(1, 1)
  \/ /\ heap # <<>>
     /\ \E x \in Inputs(heap[Len(heap)].n_input_samples) :
          GenModelMatrix(Len(heap), x)

SpecLeaf == Init /\ [][NextLeaf]_vars

\* Leaves of MaxBasisFuncs functions are built, given ceilings and composed,
\* and the basis built last is called.
NextLimit ==
  \/ NewBSplineBasis(MaxBasisFuncs, DefaultOrder, "evaluate")
  \/ \E b \in DOMAIN heap, limit \in Limits : SetGBLimit(b, limit)
  \/ \E b1, b2 \in DOMAIN heap : Add(b1, b2)
  \/ \E b1, b2 \in DOMAIN heap : Mul(b1, b2)
  \/ /\ heap # <<>>
     /\ \E x \in Inputs(heap[Len(heap)].n_input_samples) :
          GenModelMatrix(Len(heap), x)

SpecLimit == Init /\ [][NextLimit]_vars

-----------------------------------------------------------------------------
(* BSplineBasis.evaluate step by step.  Two threads call evaluate on leaf   *)
(* instances; a call is four steps, each atomic under the interpreter lock: *)
(* _generate_knots stores self.knot_locs, evaluate reads it back, computes  *)
(* on the array it read, and deletes the attribute.  knot_locs maps an      *)
(* instance to its knot_locs attribute while the attribute exists.          *)

Threads == {"t1", "t2"}

NoKnots == [exc |-> "", scale |-> 0, k |-> <<>>]

Idle == [pc |-> "idle", basis |-> 0, x |-> <<>>, outer_ok |-> FALSE,
         knots |-> NoKnots, exc |-> "", rows |-> <<>>]

\* sample streams evaluate is called on
EvalInputs == {stream(i, N) : i \in 0..1, N \in 1..MaxSamples}

Raise(c, e) == [c EXCEPT !.pc = "done", !.exc = e]

\* a thread enters b.evaluate(x, outer_ok)
StartEvaluate(t, b, x, outer_ok) ==
  /\ calls[t].pc = "idle"
  /\ b \in DOMAIN heap
  /\ calls' = [calls EXCEPT ![t] = [Idle EXCEPT !.pc = "generate", !.basis = b,
                                                !.x = x, !.outer_ok = outer_ok]]
  /\ UNCHANGED <<heap, last, knot_locs>>

\* self._generate_knots(sample_pts, 0.0, 1.0)
GenerateKnots(t) ==
  LET c == calls[t]
      o == heap[c.basis]
      kv == generate_knots(o.n_basis_funcs, o.order, c.x, FALSE)
  IN /\ c.pc = "generate"
     /\ IF kv.exc # ""
          THEN /\ calls' = [calls EXCEPT ![t] = Raise(c, kv.exc)]
               /\ UNCHANGED knot_locs
          ELSE /\ knot_locs' = (c.basis :> kv) @@ knot_locs
               /\ calls' = [calls EXCEPT ![t].pc = "read"]
     /\ UNCHANGED <<heap, last>>

\* knots = self.knot_locs; knots.sort()
ReadKnots(t) ==
  LET c == calls[t]
  IN /\ c.pc = "read"
     /\ IF c.basis \in DOMAIN knot_locs
          THEN calls' = [calls EXCEPT ![t].pc = "compute",
                                      ![t].knots = knot_locs[c.basis]]
          ELSE calls' = [calls EXCEPT ![t] = Raise(c, "AttributeError")]
     /\ UNCHANGED <<heap, last, knot_locs>>

\* from need_outer to the end of the loop over the basis elements
Compute(t, empty_ok) ==
  LET c == calls[t]
      r == evaluate_body(c.x, c.knots, heap[c.basis].order, c.outer_ok, empty_ok)
  IN /\ c.pc = "compute"
     /\ IF r.exc # ""
          THEN calls' = [calls EXCEPT ![t] = Raise(c, r.exc)]
          ELSE calls' = [calls EXCEPT ![t].pc = "delattr", ![t].rows = r.rows]
     /\ UNCHANGED <<heap, last, knot_locs>>

\* delattr(self, 'knot_locs'); return basis_eval
DeleteKnots(t) ==
  LET c == calls[t]
  IN /\ c.pc = "delattr"
     /\ IF c.basis \in DOMAIN knot_locs
          THEN /\ knot_locs' = [b \in DOMAIN knot_locs \ {c.basis} |-> knot_locs[b]]
               /\ calls' = [calls EXCEPT ![t].pc = "done"]
          ELSE /\ calls' = [calls EXCEPT ![t] = Raise(c, "AttributeError")]
               /\ UNCHANGED knot_locs
     /\ UNCHANGED <<heap, last>>

InitEval ==
  /\ heap = <<>>
  /\ last = NoOp
  /\ knot_locs = <<>>
  /\ calls = [t \in Threads |-> Idle]

\* Up to two leaves are built, then each thread makes one call.
NextEval ==
  \/ /\ Len(heap) < 2 /\ \A t \in Threads : calls[t].pc = "idle"
     /\ \E n \in 1..MaxBasisFuncs : NewBSplineBasis(n, DefaultOrder, "evaluate")
  \/ \E t \in Threads, b \in DOMAIN heap, x \in EvalInputs, outer_ok \in BOOLEAN :
       StartEvaluate(t, b, x, outer_ok)
  \/ \E t \in Threads : GenerateKnots(t)
  \/ \E t \in Threads : ReadKnots(t)
  \/ \E t \in Threads, empty_ok \in BOOLEAN : Compute(t, empty_ok)
  \/ \E t \in Threads : DeleteKnots(t)

SpecEval == InitEval /\ [][NextEval]_vars

-----------------------------------------------------------------------------
(* Cyclic_BSplineBasis, and evaluate called directly on a leaf.  The sample *)
(* buffer is the caller's array: Cyclic_BSplineBasis.evaluate writes it in  *)
(* place, in floating point, so the two writes round to MantissaBits bits.  *)

RECURSIVE BitLen(_)
BitLen(m) == IF m = 0 THEN 0 ELSE 1 + BitLen(m \div 2)

RECURSIVE Pow2(_)
Pow2(e) == IF e = 0 THEN 1 ELSE 2 * Pow2(e - 1)

\* a magnitude rounded to MantissaBits significant bits, to nearest, ties to even
RoundMag(m) ==
  IF BitLen(m) <= MantissaBits THEN m
  ELSE LET ulp == Pow2(BitLen(m) - MantissaBits)
           q == m \div ulp
           r == m % ulp
       IN IF 2 * r < ulp \/ (2 * r = ulp /\ q % 2 = 0)
            THEN q * ulp ELSE (q + 1) * ulp

\* the floating-point result of an exact result v
fl(v) == IF v < 0 THEN 0 - RoundMag(0 - v) ELSE RoundMag(v)

\* np.unique: the distinct values, ascending
unique(s) ==
  LET S == {s[i] : i \in DOMAIN s}
  IN [i \in 1..Cardinality(S) |->
        CHOOSE v \in S : Cardinality({w \in S : w < v}) = i - 1]

\* variant: without the assertion n_basis_funcs >= order + 2
CyclicInitError_two_asserts(n_basis_funcs, order, eval_type) ==
  IF SplineBasisInitError(order, eval_type) # ""
    THEN SplineBasisInitError(order, eval_type)
  ELSE IF order < 2 THEN "AssertionError"
  ELSE IF n_basis_funcs < 2 * order - 2 THEN "AssertionError"
  ELSE ""

\* what Cyclic_BSplineBasis.__init__ raises, "" when it returns
CyclicInitError(n_basis_funcs, order, eval_type) ==
  IF SplineBasisInitError(order, eval_type) # ""
    THEN SplineBasisInitError(order, eval_type)
  ELSE IF order < 2 THEN "AssertionError"
  ELSE IF n_basis_funcs < order + 2 THEN "AssertionError"
  ELSE IF n_basis_funcs < 2 * order - 2 THEN "AssertionError"
  ELSE ""

\* Cyclic_BSplineBasis(n_basis_funcs, order=order, eval_type=eval_type)
NewCyclicBSplineBasis(n_basis_funcs, order, eval_type) ==
  /\ Len(heap) < MaxObjects
  /\ IF CyclicInitError(n_basis_funcs, order, eval_type) = ""
       THEN /\ heap' = Append(heap, SplineBasis("Cyclic_BSplineBasis",
                                                n_basis_funcs, order, eval_type))
            /\ last' = Constructed("Cyclic_BSplineBasis", Len(heap) + 1, "")
       ELSE /\ heap' = heap
            /\ last' = Constructed("Cyclic_BSplineBasis", 0,
                                   CyclicInitError(n_basis_funcs, order, eval_type))
  /\ UNCHANGED <<knot_locs, calls>>

\* BSplineBasis.evaluate(sample_pts, outer_ok) run alone: kv the knots it
\* generates, r what the rest of the call makes of them.  stored is the
\* knot_locs attribute when the call ends, <<>> when there is none; before is
\* the attribute when the call starts; knots is the vector evaluated against.
bspline_evaluated(kv, r, before) ==
  IF kv.exc # ""
    THEN [exc |-> kv.exc, rows |-> <<>>, stored |-> before, knots |-> NoKnots]
  ELSE IF r.exc # ""
    THEN [exc |-> r.exc, rows |-> <<>>, stored |-> <<kv>>, knots |-> kv]
  ELSE [exc |-> "", rows |-> r.rows, stored |-> <<>>, knots |-> kv]

\* ... from the knots _generate_knots returned on
bspline_generated(o, sample_pts, outer_ok, before, kv) ==
  bspline_evaluated(kv,
                    IF kv.exc # "" THEN [exc |-> kv.exc, rows |-> <<>>]
                    ELSE evaluate_body(sample_pts, kv, o.order, outer_ok, TRUE),
                    before)

bspline_evaluate(o, sample_pts, outer_ok, before) ==
  bspline_generated(o, sample_pts, outer_ok, before,
                    generate_knots(o.n_basis_funcs, o.order, sample_pts, FALSE))

\* the samples of buf at the positions ind, in order
RECURSIVE Select(_, _, _)
Select(buf, ind, i) ==
  IF i > Len(buf) THEN <<>>
  ELSE (IF i \in ind THEN <<buf[i]>> ELSE <<>>) \o Select(buf, ind, i + 1)

\* the position of sample i of buf among the samples at the positions ind
Rank(ind, i) == Cardinality({j \in ind : j <= i})

\* sample_pts[ind] = sample_pts[ind] - knots.max() + knots_orig[0]
shift(buf, ind, kmax, k0) ==
  [i \in DOMAIN buf |->
     IF i \in ind THEN fl(fl(buf[i] - kmax) + k0) ELSE buf[i]]

\* sample_pts[ind] = sample_pts[ind] + knots.max() - knots_orig[0]
restore(buf, ind, kmax, k0) ==
  [i \in DOMAIN buf |->
     IF i \in ind THEN fl(fl(buf[i] + kmax) - k0) ELSE buf[i]]

\* Cyclic_BSplineBasis.evaluate from the result of the second pass on: the
\* sum over the far columns, the restoring write, the return
cyclic_return(sample_pts, shifted, ind, kmax, k0, ext, first, second) ==
  IF second.exc # ""
    THEN [exc |-> second.exc, rows |-> <<>>, stored |-> second.stored,
          buf |-> shifted, ext |-> ext,
          passes |-> <<[x |-> sample_pts, knots |-> first.knots],
                       [x |-> Select(shifted, ind, 1), knots |-> second.knots]>>]
    ELSE [exc |-> "",
          rows |-> [r \in DOMAIN first.rows |->
                     [i \in DOMAIN sample_pts |->
                        IF i \in ind
                          THEN FAdd(first.rows[r][i], second.rows[r][Rank(ind, i)])
                          ELSE first.rows[r][i]]],
          stored |-> second.stored, buf |-> restore(shifted, ind, kmax, k0),
          ext |-> ext,
          passes |-> <<[x |-> sample_pts, knots |-> first.knots],
                       [x |-> Select(shifted, ind, 1), knots |-> second.knots]>>]

\* ... from the result of the first pass on: the shifting write and the
\* second pass, made when some sample is far
cyclic_passes(o, sample_pts, ind, kmax, k0, ext, first) ==
  IF first.exc # ""
    THEN [exc |-> first.exc, rows |-> <<>>, stored |-> first.stored,
          buf |-> sample_pts, ext |-> ext,
          passes |-> <<[x |-> sample_pts, knots |-> first.knots]>>]
  ELSE IF ind = {}
    THEN [exc |-> "", rows |-> first.rows, stored |-> first.stored,
          buf |-> sample_pts, ext |-> ext,
          passes |-> <<[x |-> sample_pts, knots |-> first.knots]>>]
  ELSE cyclic_return(sample_pts, shift(sample_pts, ind, kmax, k0), ind, kmax,
                     k0, ext, first,
                     bspline_evaluate(o, Select(shift(sample_pts, ind, kmax, k0),
                                                ind, 1),
                                      TRUE, first.stored))

\* ... from xc on: the extended knots, ind, self.knot_locs = knots, and the
\* first pass.  uq is np.unique of the generated knots (scaled by sc).
cyclic_extend(o, sample_pts, sc, uq, xc, ext) ==
  cyclic_passes(o, sample_pts,
                {i \in DOMAIN sample_pts : sc * sample_pts[i] > xc},
                uq[Len(uq)] \div sc, uq[1] \div sc, ext,
                bspline_evaluate(o, sample_pts, TRUE, <<ext>>))

\* knots = np.hstack((knot_locs[0] - knot_locs[-1] + knot_locs[nk-order:nk-1],
\*                    knot_locs))
extended_knots(order, sc, uq) ==
  [exc |-> "", scale |-> sc,
   k |-> [j \in 1..(order - 1) |->
            uq[1] - uq[Len(uq)] + uq[Len(uq) - order + j]] \o uq]

\* Python's index nk - 2*order + 1 into an array of nk entries; -1 when it is
\* out of range
xc_index(nk, order) ==
  LET idx == nk - 2 * order + 1
  IN IF idx >= nk \/ idx < 0 - nk THEN 0 - 1
     ELSE IF idx < 0 THEN idx + nk ELSE idx

\* ... from np.unique on: uq is self.knot_locs, left on the instance when
\* knots_orig[nk - 2*order + 1] raises
cyclic_unique(o, sample_pts, sc, uq) ==
  IF xc_index(Len(uq), o.order) < 0
    THEN [exc |-> "IndexError", rows |-> <<>>,
          stored |-> <<[exc |-> "", scale |-> sc, k |-> uq]>>,
          buf |-> sample_pts, ext |-> NoKnots, passes |-> <<>>]
    ELSE cyclic_extend(o, sample_pts, sc, uq,
                       uq[xc_index(Len(uq), o.order) + 1],
                       extended_knots(o.order, sc, uq))

\* ... from the knots _generate_knots(..., is_cyclic=True) returned on
cyclic_generated(o, sample_pts, before, kv) ==
  IF kv.exc # ""
    THEN [exc |-> kv.exc, rows |-> <<>>, stored |-> before,
          buf |-> sample_pts, ext |-> NoKnots, passes |-> <<>>]
    ELSE cyclic_unique(o, sample_pts, kv.scale, unique(kv.k))

\* Cyclic_BSplineBasis.evaluate(sample_pts) run alone.  buf is the caller's
\* array when the call ends, ext the extended knot vector the call builds,
\* passes the calls of BSplineBasis.evaluate it makes: the samples each was
\* given and the knot vector each evaluated against.
cyclic_evaluate(o, sample_pts, before) ==
  cyclic_generated(o, sample_pts, before,
                   generate_knots(o.n_basis_funcs, o.order, sample_pts, TRUE))

\* the record of a call of BSplineBasis.evaluate made directly
direct_pass(sample_pts, e) ==
  [exc |-> e.exc, rows |-> e.rows, stored |-> e.stored, buf |-> sample_pts,
   ext |-> NoKnots,
   passes |-> IF e.knots = NoKnots THEN <<>>
              ELSE <<[x |-> sample_pts, knots |-> e.knots]>>]

\* evaluate of leaf o, whichever class it has
leaf_evaluate(o, sample_pts, before) ==
  IF o.cls = "Cyclic_BSplineBasis"
    THEN cyclic_evaluate(o, sample_pts, before)
    ELSE direct_pass(sample_pts, bspline_evaluate(o, sample_pts, FALSE, before))

\* what a call of evaluate that ended as r leaves in last and knot_locs
Ended(b, x, r) ==
  /\ last' = [op |-> "evaluate", basis |-> b, x |-> x, exc |-> r.exc,
              val |-> IF r.exc = "" THEN Matrix(r.rows) ELSE NoneValue,
              log |-> <<>>, buf |-> r.buf, passes |-> r.passes, ext |-> r.ext]
  /\ knot_locs' = IF r.stored = <<>>
                    THEN [c \in DOMAIN knot_locs \ {b} |-> knot_locs[c]]
                    ELSE (b :> r.stored[1]) @@ knot_locs

\* b.evaluate(x), a whole call, on the caller's array x
Evaluate(b, x) ==
  /\ b \in DOMAIN heap /\ IsLeaf(heap[b])
  /\ Ended(b, x, leaf_evaluate(heap[b], x,
                 IF b \in DOMAIN knot_locs THEN <<knot_locs[b]>> ELSE <<>>))
  /\ UNCHANGED <<heap, calls>>

\* a sample whose sum with 1 is not representable
FarSample == Pow2(MantissaBits + 1) - 2

\* the arrays evaluate is called on: the streams above, a constant one, and
\* two with samples far apart
Buffers ==
  EvalInputs \cup {<<1, 1>>, <<1, FarSample>>, <<FarSample, 1, FarSample - 2>>}

\* One leaf of either class is built, with any hyperparameters, and
\* evaluated.
NextCyclic ==
  \/ /\ heap = <<>>
     /\ \E n \in 3..(MaxBasisFuncs + 3), k \in 0..MaxOrder, e \in EvalTypes :
          NewCyclicBSplineBasis(n, k, e)
  \/ /\ heap = <<>>
     /\ \E n \in 1..MaxBasisFuncs, k \in 0..MaxOrder, e \in EvalTypes :
          NewBSplineBasis(n, k, e)
  \/ \E x \in Buffers : Evaluate(1, x)

SpecCyclic == Init /\ [][NextCyclic]_vars

-----------------------------------------------------------------------------
(* Properties. *)

IsCall == last.op = "gen_model_matrix"
Callee == heap[last.basis]
Returned == IsCall /\ last.exc = ""
UnequalLengths(x) == \E i, j \in DOMAIN x : Len(x[i]) # Len(x[j])

\* v is a two-dimensional array of r rows and c columns
HasShape(v, r, c) ==
  /\ v.tag = "matrix"
  /\ Len(v.rows) = r
  /\ \A i \in DOMAIN v.rows : Len(v.rows[i]) = c

\* C1: a call with a wrong number of streams fails with the input-count
\* error whatever else is wrong with it, and a call with the right number of
\* streams of unequal lengths fails with the shape error.
C1_CountCheckedFirst ==
  IsCall =>
    /\ Len(last.x) # Callee.n_input_samples => last.exc = InputCountError
    /\ (Len(last.x) = Callee.n_input_samples /\ UnequalLengths(last.x))
         => last.exc = ShapeError

\* C2: a call either raises or returns a matrix of shape [n_basis_funcs, N].
C2_MatrixOrError ==
  IsCall =>
    \/ last.exc # ""
    \/ /\ last.x # <<>>
       /\ HasShape(last.val, Callee.n_basis_funcs, Len(last.x[1]))

\* the basis-function count of the whole tree under b, from its leaves
RECURSIVE TreeBasisFuncs(_, _)
TreeBasisFuncs(h, b) ==
  IF IsLeaf(h[b]) THEN h[b].n_basis_funcs
  ELSE IF h[b].cls = "addBasis"
    THEN TreeBasisFuncs(h, h[b].basis1) + TreeBasisFuncs(h, h[b].basis2)
    ELSE TreeBasisFuncs(h, h[b].basis1) * TreeBasisFuncs(h, h[b].basis2)

\* the leaves under b, left to right, one entry per occurrence
RECURSIVE LeafSeq(_, _)
LeafSeq(h, b) ==
  IF IsLeaf(h[b]) THEN <<b>>
  ELSE LeafSeq(h, h[b].basis1) \o LeafSeq(h, h[b].basis2)

IsComposite(o) == o.cls \in {"addBasis", "mulBasis"}

\* size > g * 10**9 + r bytes
OverCeiling(size, limit) ==
  size - limit[2] > 0 /\ (size - limit[2] - 1) \div BytesPerGB >= limit[1]

\* C4: on streams of one length N, the call fails with the resource-limit
\* error exactly when 8 * N * (basis functions of the whole tree) is strictly
\* greater than the ceiling of the basis called, and then no leaf evaluation
\* was started.
C4_ResourceLimitExact ==
  (IsCall /\ last.x # <<>> /\ ~UnequalLengths(last.x)) =>
    /\ last.exc = ResourceLimitError <=>
         OverCeiling(8 * Len(last.x[1]) * TreeBasisFuncs(heap, last.basis),
                     Callee.GB_limit)
    /\ last.exc = ResourceLimitError => last.log = <<>>

\* a composite fails with the resource-limit error on streams each of its
\* leaves takes alone
C4_Witness ==
  /\ IsCall /\ last.exc = ResourceLimitError
  /\ IsComposite(Callee)
  /\ \A i \in DOMAIN LeafSeq(heap, last.basis) :
       ~OverCeiling(8 * Len(last.x[1]) *
                      heap[LeafSeq(heap, last.basis)[i]].n_basis_funcs,
                    Callee.GB_limit)

\* C5: a sum has the sum of its children's basis-function counts, a product
\* their product, every composite the sum of their input counts, which is the
\* number of leaf occurrences under it.
C5_AggregateCounts ==
  \A b \in DOMAIN heap :
    LET o == heap[b] IN
    /\ o.cls = "addBasis" =>
         o.n_basis_funcs = heap[o.basis1].n_basis_funcs + heap[o.basis2].n_basis_funcs
    /\ o.cls = "mulBasis" =>
         o.n_basis_funcs = heap[o.basis1].n_basis_funcs * heap[o.basis2].n_basis_funcs
    /\ IsComposite(o) =>
         o.n_input_samples =
           heap[o.basis1].n_input_samples + heap[o.basis2].n_input_samples
    /\ o.n_input_samples = Len(LeafSeq(heap, b))

\* a product whose left operand is a sum
C5_Witness ==
  \E b \in DOMAIN heap :
    /\ heap[b].cls = "mulBasis"
    /\ heap[heap[b].basis1].cls = "addBasis"
    /\ heap[b].n_basis_funcs > heap[heap[b].basis1].n_basis_funcs

\* C6: the leaf evaluations of a call are started in the left-to-right order
\* of the leaves, the i-th with the i-th stream of the call; a call that
\* returns has given every leaf occurrence exactly one stream.
C6_Routing ==
  IsCall =>
    /\ \A i \in DOMAIN last.log :
         /\ i <= Len(LeafSeq(heap, last.basis))
         /\ last.log[i].leaf = LeafSeq(heap, last.basis)[i]
         /\ i <= Len(last.x)
         /\ last.log[i].stream = last.x[i]
    /\ Returned =>
         /\ Len(last.log) = Len(LeafSeq(heap, last.basis))
         /\ Len(last.log) = Len(last.x)

\* a returned call on a composite nested on the left, (A op B) op C, with
\* three streams that differ
C6_Witness ==
  /\ Returned
  /\ IsComposite(Callee) /\ IsComposite(heap[Callee.basis1])
  /\ Len(last.log) = 3
  /\ last.x[1] # last.x[2] /\ last.x[2] # last.x[3] /\ last.x[1] # last.x[3]

\* the matrices of the two children of the basis called, each computed on its
\* own on its share of the streams
LeftShare == SubSeq(last.x, 1, heap[Callee.basis1].n_input_samples)
RightShare == SubSeq(last.x, heap[Callee.basis1].n_input_samples + 1, Len(last.x))
LeftMatrix == gen_matrix(heap, Callee.basis1, LeftShare).val
RightMatrix == gen_matrix(heap, Callee.basis2, RightShare).val
IsNumeric(m) == m.tag = "matrix" /\ ~HasNone(m)

C8_SumStacks ==
  (Returned /\ Callee.cls = "addBasis") =>
    LET left == LeftMatrix
        right == RightMatrix
        L == Len(left.rows)
        R == Len(right.rows)
    IN (IsNumeric(left) /\ IsNumeric(right)) =>
         /\ HasShape(last.val, L + R, Len(last.x[1]))
         /\ SubSeq(last.val.rows, 1, L) = left.rows
         /\ SubSeq(last.val.rows, L + 1, L + R) = right.rows

\* a sum of two different matrices
C8_Witness ==
  /\ Returned /\ Callee.cls = "addBasis"
  /\ Len(last.x[1]) >= 2
  /\ LET left == LeftMatrix
         right == RightMatrix
     IN IsNumeric(left) /\ IsNumeric(right) /\ left # right

\* the calls that have read a knot vector from their instance
HasRead(c) == c.pc \in {"compute", "delattr", "done"} /\ c.knots # NoKnots

OwnKnots(c) ==
  generate_knots(heap[c.basis].n_basis_funcs, heap[c.basis].order, c.x, FALSE)

\* C3: however two evaluate calls interleave, each call computes on the knot
\* vector generated from its own samples, and neither ends in an error of
\* the knot_locs attribute that the other call caused.
C3_CallsIsolated ==
  \A t \in Threads :
    /\ HasRead(calls[t]) => calls[t].knots = OwnKnots(calls[t])
    /\ calls[t].exc # "AttributeError"

\* some sample is outside [knots[order-1], knots[len-order]] of the knots read
OutOfRange(c) ==
  /\ HasRead(c)
  /\ need_outer(c.x, sort(c.knots.k), c.knots.scale, heap[c.basis].order)

\* C10: a call with a sample outside the support of its knots ends in the
\* assertion error when outer_ok is false, and returns a matrix, one row per
\* basis function and one column per sample, when outer_ok is true.
C10_OutOfRange ==
  \A t \in Threads :
    (OutOfRange(calls[t]) /\ calls[t].pc = "done") =>
      IF calls[t].outer_ok
        THEN /\ calls[t].exc = ""
             /\ Len(calls[t].rows) = heap[calls[t].basis].n_basis_funcs
             /\ \A r \in DOMAIN calls[t].rows :
                  Len(calls[t].rows[r]) = Len(calls[t].x)
        ELSE calls[t].exc = "AssertionError"
\* the hyperparameters the constructors accept, with n_basis_funcs >= order
ValidLeaf(o) ==
  /\ IsLeaf(o)
  /\ SplineBasisInitError(o.order, o.eval_type) = ""
  /\ o.n_basis_funcs >= o.order

\* C9: gen_model_matrix of a leaf with valid hyperparameters and
\* n_basis_funcs >= order, on one stream of N samples, returns a matrix of
\* n_basis_funcs rows and N columns.
C9_LeafShape ==
  (IsCall /\ ValidLeaf(Callee) /\ Len(last.x) = 1) =>
    /\ last.exc = ""
    /\ HasShape(last.val, Callee.n_basis_funcs, Len(last.x[1]))

\* C11: every basis object constructed has n_basis_funcs > 0 and a defined
\* n_input_samples; a request with n_basis_funcs <= 0 yields no basis.
C11_PositiveCounts ==
  \A b \in DOMAIN heap :
    heap[b].n_basis_funcs > 0 /\ heap[b].n_input_samples >= 1

\* the composites that have b as an operand, once per operand position
Parents(b) ==
  {p \in (DOMAIN heap) \X {1, 2} :
     /\ IsComposite(heap[p[1]])
     /\ (IF p[2] = 1 THEN heap[p[1]].basis1 ELSE heap[p[1]].basis2) = b}

\* the objects under b, b included
RECURSIVE Descendants(_, _)
Descendants(h, b) ==
  IF IsLeaf(h[b]) THEN {b}
  ELSE {b} \cup Descendants(h, h[b].basis1) \cup Descendants(h, h[b].basis2)

\* C12: no basis is an operand of more than one composite (or twice of one),
\* no basis occurs twice under a composite, and no composite is under itself.
C12_ExclusiveOwnership ==
  \A b \in DOMAIN heap :
    /\ Cardinality(Parents(b)) <= 1
    /\ IsComposite(heap[b]) =>
         /\ Descendants(heap, heap[b].basis1) \cap Descendants(heap, heap[b].basis2) = {}
         /\ b \notin Descendants(heap, heap[b].basis1) \cup Descendants(heap, heap[b].basis2)

\* the first leaf under b in left-to-right order
LeftmostLeaf(h, b) == LeafSeq(h, b)[1]

\* C19: a composite has the ceiling of the leftmost leaf under it, and a call
\* on streams of one length fails with the resource-limit error exactly when
\* the size of the whole matrix is over that leaf's ceiling, whatever the
\* ceilings of the other leaves.
C19_CeilingFromLeft ==
  /\ \A b \in DOMAIN heap :
       heap[b].GB_limit = heap[LeftmostLeaf(heap, b)].GB_limit
  /\ (IsCall /\ last.x # <<>> /\ ~UnequalLengths(last.x)) =>
       (last.exc = ResourceLimitError <=>
          OverCeiling(ItemSize * Len(last.x[1]) * Callee.n_basis_funcs,
                      heap[LeftmostLeaf(heap, last.basis)].GB_limit))

\* a call on a composite returns although the matrix is over the ceiling of
\* a leaf that is not the leftmost one
C19_Witness ==
  /\ Returned /\ IsComposite(Callee)
  /\ \E i \in DOMAIN LeafSeq(heap, last.basis) :
       /\ i > 1
       /\ OverCeiling(ItemSize * Len(last.x[1]) * Callee.n_basis_funcs,
                      heap[LeafSeq(heap, last.basis)[i]].GB_limit)

IsEvaluate == last.op = "evaluate"
IsCyclic(o) == o.cls = "Cyclic_BSplineBasis"

\* C13: when an evaluate call on a leaf has ended, by return or by an error,
\* the instance has no knot_locs attribute.
C13_NoStoredKnots ==
  IsEvaluate => last.basis \notin DOMAIN knot_locs

\* C14: when an evaluate call on a cyclic leaf has ended, the caller's array
\* holds the values it held when the call started.
C14_BufferRestored ==
  (IsEvaluate /\ IsCyclic(heap[last.basis])) => last.buf = last.x

\* the exceptions a constructor reports a bad configuration with
ConfigErrors == {"ValueError", "AssertionError"}

C16_PassesUseExtendedKnots ==
  (IsEvaluate /\ IsCyclic(heap[last.basis])) =>
    \A p \in DOMAIN last.passes : last.passes[p].knots = last.ext

\* C17: knot generation raises ValueError exactly when num_interior < 0;
\* otherwise the vector is non-decreasing, of length 2*(order-1) +
\* num_interior + 2: order-1 copies of mn, num_interior+2 evenly spaced
\* points from mn to mx, order-1 copies of mx.  A direct BSplineBasis.evaluate
\* call fails or evaluates against that vector accordingly.
C17_KnotGeneration ==
  IsEvaluate =>
    LET o == heap[last.basis]
        order == o.order
        ni == IF IsCyclic(o) THEN o.n_basis_funcs - 1
                             ELSE o.n_basis_funcs - order
        kv == generate_knots(o.n_basis_funcs, order, last.x, IsCyclic(o))
        mn == SeqMin(last.x)
        mx == SeqMax(last.x)
    IN /\ kv.exc = "ValueError" <=> ni < 0
       /\ kv.exc # "ValueError" =>
            /\ kv.exc = ""
            /\ Len(kv.k) = 2 * (order - 1) + ni + 2
            /\ \A j \in 1..(Len(kv.k) - 1) : kv.k[j] <= kv.k[j + 1]
            /\ \A j \in 1..order : kv.k[j] = kv.scale * mn
            /\ \A j \in (order + ni + 1)..Len(kv.k) : kv.k[j] = kv.scale * mx
            /\ \A j \in order..(order + ni) :
                 (ni + 1) * (kv.k[j + 1] - kv.k[j]) = kv.scale * (mx - mn)
       /\ ~IsCyclic(o) =>
            /\ last.exc = "ValueError" <=> ni < 0
            /\ last.exc = "" => last.passes[1].knots = kv

\* knots were generated for a cyclic leaf of order 3 from samples that differ
C17_Witness ==
  /\ IsEvaluate /\ IsCyclic(heap[last.basis]) /\ last.exc = ""
  /\ heap[last.basis].order = 3
  /\ SeqMin(last.x) < SeqMax(last.x)

\* C18: no call of BSplineBasis.evaluate finds a sample outside the support
\* of the knots it read, and none ends in the assertion error of the support
\* check.
C18_NeverOutOfRange ==
  \A t \in Threads :
    ~OutOfRange(calls[t]) /\ calls[t].exc # "AssertionError"

====
